---- MODULE Spec2Model ----
(***************************************************************************)
(* Model of the two command line tools of ed-misc-tools:                   *)
(*   software-engineering/changeset-loop-runs.py  (the Bisect Runner)      *)
(*   software-engineering/restart-compare.py      (the Restart Comparator) *)
(*                                                                         *)
(* Strings are TLA+ strings, lists are sequences, a path is the sequence   *)
(* of its components, a Python dict is the sequence of its items in the    *)
(* dict's own enumeration order.                                           *)
(***************************************************************************)
EXTENDS Integers, Sequences, FiniteSets, TLC

VARIABLES
    \* ---- Bisect Runner: command line and configuration file
    dry_run,         \* options.dry_run
    bisect_type,     \* config [bisect_test] type
    python3,         \* interpreter major version is 3 (sys.version_info[0] != 2)
    changeset_ids,   \* config [version_control] changeset_ids, split
    test_commands,   \* config [bisect_test] test_commands, split
    \* ---- Bisect Runner: control state of main
    pc,              \* position in main
    k,               \* index of the changeset of the current iteration
    fi,              \* index of the next follow-up command in bisect_test
    status,          \* exit status of the process, "running" before it exits
    error,           \* the exception that ended the run, "" if none
    \* ---- Bisect Runner: environment and observable effects
    workdir,         \* the process working directory
    dirs,            \* the directories that exist
    invoked,         \* subprocess.check_output calls, in order
    chdirs,          \* os.chdir calls (their targets), in order
    printed,         \* lines printed to stdout, in order
    logfile,         \* what was written to the log file (indices into invoked)
    opened,          \* the log files opened for writing, in order
    checks,          \* the os.path.isdir checks of main, in order
    \* ---- Restart Comparator
    base_file,       \* variables of the baseline file, in enumeration order
    restart_file,    \* variables of the restart file, in enumeration order
    cpc,             \* position in main
    time_vars,       \* result of get_time_vars
    vi,              \* index into time_vars of the variable being compared
    ti,              \* index into times of the time step being compared
    reads,           \* variable lookups <<file, name>> made by compare_variables
    report,          \* what the comparator printed (and plotted), in order
    cstatus,         \* exit status of the comparator, "running" before it exits
    \* ---- diff_dict / get_time_vars as pure functions
    dict_a, dict_b, compare_values, diff, fpc

bisect_vars == <<dry_run, bisect_type, python3, changeset_ids, test_commands,
                 pc, k, fi, status, error, workdir, dirs, invoked, chdirs,
                 printed, logfile, opened, checks>>
compare_vars == <<base_file, restart_file, cpc, time_vars, vi, ti, reads,
                  report, cstatus>>
diff_vars == <<dict_a, dict_b, compare_values, diff, fpc>>
vars == <<bisect_vars, compare_vars, diff_vars>>

\* ------------------------------------------------------------------ bounds
MaxChangesets == 2
MaxCommands == 2

\* ------------------------------------------------------------ generic helpers
RECURSIVE Concat(_)
Concat(ss) == IF ss = <<>> THEN "" ELSE Head(ss) \o Concat(Tail(ss))

RECURSIVE Flatten(_)
Flatten(seqs) == IF seqs = <<>> THEN <<>> ELSE Head(seqs) \o Flatten(Tail(seqs))

SeqsUpTo(S, n) == UNION {[1..m -> S] : m \in 0..n}

Range(s) == {s[i] : i \in 1..Len(s)}

\* ===========================================================================
\*                              BISECT RUNNER
\* ===========================================================================

\* ---- configuration values ([version_control] and [bisect_test] sections)
ChangesetUniverse == {"c1", "c2"}
branch_base == "br"
git_ref_repo == "ed-clm-git"
cwd == <<"work">>

\* A piece of a template word: a literal, or a placeholder naming a key.
Lit(s) == [ph |-> FALSE, s |-> s]
Ph(s) == [ph |-> TRUE, s |-> s]

\* Follow-up command templates a configuration may list (str.format fields).
CommandUniverse == { <<Lit("./case.setup")>>, <<Ph("case_name"), Lit(".build")>> }

config_bisect_test ==
    [type |-> bisect_type, test |-> "ERS_D_Ld3", resolution |-> "f10_f10",
     compset |-> "ICLM50BGC", machine |-> "yellowstone", compiler |-> "intel",
     test_mods |-> "clm-default", test_commands |-> test_commands]

\* ---- string.Template.substitute / str.format on one whitespace separated word
MissingKeys(word, info) ==
    {i \in 1..Len(word) : word[i].ph /\ word[i].s \notin DOMAIN info}

SubstituteWord(word, info) ==
    Concat([i \in 1..Len(word) |->
               IF word[i].ph THEN info[word[i].s] ELSE word[i].s])

\* Template(...).substitute(info).split(): a KeyError when a placeholder of the
\* template is not a key of info, else the list of words.
substitute(template, info) ==
    IF \E w \in 1..Len(template) : MissingKeys(template[w], info) # {}
    THEN [ok |-> FALSE, cmd |-> <<>>]
    ELSE [ok |-> TRUE,
          cmd |-> [w \in 1..Len(template) |-> SubstituteWord(template[w], info)]]

generate_id(basename, changset_id) == basename \o "-" \o changset_id

newcase_template ==
    << <<Lit("./create_newcase")>>,
       <<Lit("-case")>>, <<Ph("case_name")>>,
       <<Lit("-res")>>, <<Ph("resolution")>>,
       <<Lit("-compset")>>, <<Ph("compset")>>,
       <<Lit("-mach")>>, <<Ph("machine")>>,
       <<Lit("-compiler")>>, <<Ph("COMPILER")>> >>

generate_newcase_command(config, case_name) ==
    LET run_info == [case_name |-> case_name,
                     resolution |-> config.resolution,
                     compset |-> config.compset,
                     machine |-> config.machine,
                     compiler |-> config.compiler]
        case == substitute(newcase_template, run_info)
    IN  [ok |-> case.ok, name |-> case_name, cmd |-> case.cmd]

testname_template ==
    << <<Ph("test_type"), Lit("."), Ph("resolution"), Lit("."), Ph("compset"),
         Lit("."), Ph("machine"), Lit("_"), Ph("compiler"), Lit("."),
         Ph("test_mods")>> >>

newtest_template ==
    << <<Lit("./create_test")>>,
       <<Lit("-testname")>>, <<Ph("testname")>>,
       <<Lit("-testid")>>, <<Ph("case_name")>> >>

generate_test_command(config, case_name) ==
    LET run_info == [case_name |-> case_name,
                     resolution |-> config.resolution,
                     compset |-> config.compset,
                     machine |-> config.machine,
                     compiler |-> config.compiler,
                     test_type |-> config.test,
                     test_mods |-> config.test_mods]
        name == substitute(testname_template, run_info)
        full_info == [key \in DOMAIN run_info \cup {"testname"} |->
                         IF key = "testname" THEN name.cmd[1] ELSE run_info[key]]
        case == IF name.ok THEN substitute(newtest_template, full_info)
                ELSE [ok |-> FALSE, cmd |-> <<>>]
    IN  [ok |-> case.ok,
         name |-> IF name.ok THEN name.cmd[1] \o "." \o case_name ELSE "",
         cmd |-> case.cmd]

\* bisect_test, lines 212-215: the template is chosen by the configured type.
case_command(config, case_id) ==
    IF config.type = "newcase"
    THEN generate_newcase_command(config, case_id)
    ELSE generate_test_command(config, case_id)

\* bisect_test, line 228: my_cmd.format(case_name=case_name)
format_command(my_cmd, case_name) ==
    SubstituteWord(my_cmd, [case_name |-> case_name])

\* ---- git wrapper functions: the command each one builds
clone_cmd(repo_dir, temp_repo_dir) ==
    <<"git", "clone", Concat(repo_dir), Concat(temp_repo_dir)>>

checkout_cmd(changeset_id, branch_name) ==
    <<"git", "checkout", "-b", branch_name, changeset_id>>

clone_message(repo_dir, temp_repo_dir) ==
    <<"Cloning git repo at : ", Concat(repo_dir), " to ", Concat(temp_repo_dir)>>

\* ---- main: names derived per iteration
repo_dir == cwd \o <<"/", git_ref_repo>>
run_id_of(c) == generate_id(branch_base, c)
temp_repo_dir_of(c) == cwd \o <<"/", run_id_of(c)>>
changeset == changeset_ids[k]
run_id == run_id_of(changeset)
temp_repo_dir == temp_repo_dir_of(changeset)
scripts_dir == temp_repo_dir \o <<"/", "cime", "/", "scripts">>
log_filename == branch_base \o ".log"

\* main, line 300: os.chdir(cwd) at the head of every iteration
chdir_base_skipped(wd) == wd
chdir_base(wd) == cwd

\* main, line 304: os.path.isdir(temp_repo_dir)
isdir_never(path, existing) == FALSE
isdir(path, existing) == path \in existing

\* "if not dry_run:" guarding every subprocess call and every other os.chdir
executes_always == TRUE
executes == ~dry_run

\* subprocess.check_output raises CalledProcessError on a nonzero exit status
raises_never(ok) == FALSE
raises(ok) == ~ok

\* ---- effects shared by the steps of main
Invocation(step, argv, ok) == [iter |-> k, step |-> step, argv |-> argv, ok |-> ok]

Line(kind, text) == [kind |-> kind, text |-> text]

\* __main__, lines 322-329: an exception unwinds to the top-level handler, which
\* prints the message and exits with status 1.
Fatal(exception, lines) ==
    /\ pc' = "done"
    /\ status' = "1"
    /\ error' = exception
    /\ printed' = Append(lines, Line("error", <<exception>>))

\* ---- Init: the command line, the configuration file and the file system
InitBisect ==
    /\ dry_run \in BOOLEAN
    /\ bisect_type \in {"newcase", "test"}
    /\ python3 \in BOOLEAN
    /\ changeset_ids \in SeqsUpTo(ChangesetUniverse, MaxChangesets)
    /\ test_commands \in SeqsUpTo(CommandUniverse, MaxCommands)
    /\ pc = "start"
    /\ k = 1
    /\ fi = 1
    /\ status = "running"
    /\ error = ""
    /\ workdir = cwd
    /\ \E old \in SUBSET {temp_repo_dir_of(c) : c \in ChangesetUniverse} :
           dirs = {cwd, repo_dir} \cup old
    /\ invoked = <<>>
    /\ chdirs = <<>>
    /\ printed = <<>>
    /\ logfile = <<>>
    /\ opened = <<>>
    /\ checks = <<>>

\* main, lines 284-298: the changeset list is printed and the log file opened.
main_open ==
    /\ pc = "start"
    /\ printed' = Append(printed, Line("list", changeset_ids))
    /\ opened' = Append(opened, log_filename)
    /\ pc' = "iter"
    /\ UNCHANGED <<compare_vars, diff_vars>>
    /\ UNCHANGED <<dry_run, bisect_type, python3, changeset_ids, test_commands,
                   k, fi, status, error, workdir, dirs, invoked, chdirs,
                   logfile, checks>>

\* main, lines 299-309 with clone_ref_repo: one iteration up to the clone.
main_clone ==
    /\ pc = "iter"
    /\ k <= Len(changeset_ids)
    /\ LET wd1 == chdir_base(workdir)
           chd1 == Append(chdirs, wd1)
           msg == Append(printed,
                         Line("message", clone_message(repo_dir, temp_repo_dir)))
       IN  /\ checks' = Append(checks, [iter |-> k, path |-> temp_repo_dir,
                                        before |-> workdir, at |-> wd1,
                                        existed |-> temp_repo_dir \in dirs])
           /\ \/ /\ isdir(temp_repo_dir, dirs)
                 /\ Fatal("RuntimeError: temporary git repo dir already exists",
                          printed)
                 /\ workdir' = wd1
                 /\ chdirs' = chd1
                 /\ UNCHANGED <<dirs, invoked>>
              \/ /\ ~isdir(temp_repo_dir, dirs)
                 /\ ~executes
                 /\ printed' = msg
                 /\ pc' = "checkout"
                 /\ workdir' = wd1
                 /\ chdirs' = chd1
                 /\ UNCHANGED <<dirs, invoked, status, error>>
              \/ /\ ~isdir(temp_repo_dir, dirs)
                 /\ executes
                 /\ \E ok \in BOOLEAN, has_scripts \in BOOLEAN :
                       /\ invoked' = Append(invoked,
                              Invocation("clone", clone_cmd(repo_dir, temp_repo_dir), ok))
                       /\ IF ~raises(ok)
                          THEN /\ dirs' = dirs \cup {temp_repo_dir} \cup
                                       (IF has_scripts THEN {scripts_dir} ELSE {})
                               /\ printed' = msg
                               /\ pc' = "checkout"
                               /\ workdir' = temp_repo_dir
                               /\ chdirs' = Append(chd1, temp_repo_dir)
                               /\ UNCHANGED <<status, error>>
                          ELSE /\ ~has_scripts
                               /\ Fatal("CalledProcessError", msg)
                               /\ workdir' = wd1
                               /\ chdirs' = chd1
                               /\ UNCHANGED dirs
    /\ UNCHANGED <<compare_vars, diff_vars>>
    /\ UNCHANGED <<dry_run, bisect_type, python3, changeset_ids, test_commands,
                   k, fi, logfile, opened>>

\* main, lines 310-314 with checkout_git_branch: checkout, then into cime/scripts.
main_checkout ==
    /\ pc = "checkout"
    /\ \/ /\ ~executes
          /\ pc' = "bisect"
          /\ UNCHANGED <<status, error, printed, workdir, chdirs, invoked>>
       \/ /\ executes
          /\ \E ok \in BOOLEAN :
                /\ invoked' = Append(invoked,
                       Invocation("checkout", checkout_cmd(changeset, run_id), ok))
                /\ IF raises(ok)
                   THEN /\ Fatal("CalledProcessError", printed)
                        /\ UNCHANGED <<workdir, chdirs>>
                   ELSE /\ chdirs' = Append(chdirs, scripts_dir)
                        /\ IF scripts_dir \in dirs
                           THEN /\ workdir' = scripts_dir
                                /\ pc' = "bisect"
                                /\ UNCHANGED <<status, error, printed>>
                           ELSE /\ Fatal("OSError: No such file or directory", printed)
                                /\ UNCHANGED workdir
    /\ UNCHANGED <<compare_vars, diff_vars>>
    /\ UNCHANGED <<dry_run, bisect_type, python3, changeset_ids, test_commands,
                   k, fi, dirs, logfile, opened, checks>>

\* bisect_test, lines 219-221 and 231-233: logfile.write(output). check_output
\* returns bytes under Python 3 and the log file is opened in text mode, so the
\* write raises TypeError there; under Python 2 the output is appended.
write_ok == ~python3

LogDropped(log, entry) == log
LogAppend(log, entry) == Append(log, entry)

\* bisect_test, lines 212-224: generate, print and run the case command, then
\* change into the case directory.
bisect_test_case ==
    /\ pc = "bisect"
    /\ LET gen == case_command(config_bisect_test, run_id)
           case_dir == workdir \o <<"/", gen.name>>
           shown == Append(printed, Line("command", gen.cmd))
       IN  \/ /\ ~gen.ok
              /\ Fatal("KeyError", printed)
              /\ UNCHANGED <<fi, workdir, dirs, invoked, chdirs, logfile>>
           \/ /\ gen.ok
              /\ ~executes
              /\ printed' = shown
              /\ pc' = "followup"
              /\ fi' = 1
              /\ UNCHANGED <<status, error, workdir, dirs, invoked, chdirs, logfile>>
           \/ /\ gen.ok
              /\ executes
              /\ \E ok \in BOOLEAN, made \in BOOLEAN :
                    /\ invoked' = Append(invoked, Invocation("case", gen.cmd, ok))
                    /\ dirs' = IF ok /\ made THEN dirs \cup {case_dir} ELSE dirs
                    /\ IF raises(ok)
                       THEN /\ ~made
                            /\ Fatal("CalledProcessError", shown)
                            /\ UNCHANGED <<fi, workdir, chdirs, logfile>>
                       ELSE IF ~write_ok
                       THEN /\ Fatal("TypeError", shown)
                            /\ UNCHANGED <<fi, workdir, chdirs, logfile>>
                       ELSE /\ logfile' = LogAppend(logfile, Len(invoked) + 1)
                            /\ chdirs' = Append(chdirs, case_dir)
                            /\ IF made
                               THEN /\ workdir' = case_dir
                                    /\ printed' = shown
                                    /\ pc' = "followup"
                                    /\ fi' = 1
                                    /\ UNCHANGED <<status, error>>
                               ELSE /\ Fatal("OSError: No such file or directory",
                                             shown)
                                    /\ UNCHANGED <<fi, workdir>>
    /\ UNCHANGED <<compare_vars, diff_vars>>
    /\ UNCHANGED <<dry_run, bisect_type, python3, changeset_ids, test_commands,
                   k, opened, checks>>

\* bisect_test, lines 226-233: one pass of the loop over the follow-up commands.
bisect_test_command ==
    /\ pc = "followup"
    /\ fi <= Len(test_commands)
    /\ LET gen == case_command(config_bisect_test, run_id)
           cmd == format_command(test_commands[fi], gen.name)
           shown == Append(printed, Line("command", <<cmd>>))
       IN  \/ /\ ~executes
              /\ printed' = shown
              /\ fi' = fi + 1
              /\ UNCHANGED <<pc, status, error, invoked, logfile>>
           \/ /\ executes
              /\ \E ok \in BOOLEAN :
                    /\ invoked' = Append(invoked, Invocation("followup", <<cmd>>, ok))
                    /\ IF raises(ok)
                       THEN /\ Fatal("CalledProcessError", shown)
                            /\ UNCHANGED <<fi, logfile>>
                       ELSE IF ~write_ok
                       THEN /\ Fatal("TypeError", shown)
                            /\ UNCHANGED <<fi, logfile>>
                       ELSE /\ logfile' = LogAppend(logfile, Len(invoked) + 1)
                            /\ printed' = shown
                            /\ fi' = fi + 1
                            /\ UNCHANGED <<pc, status, error>>
    /\ UNCHANGED <<compare_vars, diff_vars>>
    /\ UNCHANGED <<dry_run, bisect_type, python3, changeset_ids, test_commands,
                   k, workdir, dirs, chdirs, opened, checks>>

\* bisect_test returns once its commands are exhausted; main, line 299, takes the
\* next changeset.
main_next ==
    /\ pc = "followup"
    /\ fi > Len(test_commands)
    /\ pc' = "iter"
    /\ k' = k + 1
    /\ UNCHANGED <<compare_vars, diff_vars>>
    /\ UNCHANGED <<dry_run, bisect_type, python3, changeset_ids, test_commands,
                   fi, status, error, workdir, dirs, invoked, chdirs, printed,
                   logfile, opened, checks>>

\* main, line 317, and __main__, line 324: return 0; sys.exit(status).
main_return ==
    /\ pc = "iter"
    /\ k > Len(changeset_ids)
    /\ pc' = "done"
    /\ status' = "0"
    /\ UNCHANGED <<compare_vars, diff_vars>>
    /\ UNCHANGED <<dry_run, bisect_type, python3, changeset_ids, test_commands,
                   k, fi, error, workdir, dirs, invoked, chdirs, printed,
                   logfile, opened, checks>>

NextBisect ==
    \/ main_open
    \/ main_clone
    \/ main_checkout
    \/ bisect_test_case
    \/ bisect_test_command
    \/ main_next
    \/ main_return

\* ---- idle values of the variables a specification does not use
IdleBisect ==
    /\ dry_run = FALSE /\ bisect_type = "" /\ python3 = FALSE
    /\ changeset_ids = <<>> /\ test_commands = <<>>
    /\ pc = "idle" /\ k = 1 /\ fi = 1 /\ status = "running" /\ error = ""
    /\ workdir = <<>> /\ dirs = {} /\ invoked = <<>> /\ chdirs = <<>>
    /\ printed = <<>> /\ logfile = <<>> /\ opened = <<>> /\ checks = <<>>

IdleCompare ==
    /\ base_file = <<>> /\ restart_file = <<>> /\ cpc = "idle"
    /\ time_vars = <<>> /\ vi = 1 /\ ti = 1 /\ reads = {} /\ report = <<>>
    /\ cstatus = "running"

IdleDiff ==
    /\ dict_a = <<>> /\ dict_b = <<>> /\ compare_values = FALSE
    /\ diff = <<>> /\ fpc = "idle"

InitBisectRun == InitBisect /\ IdleCompare /\ IdleDiff

SpecBisect == InitBisectRun /\ [][NextBisect]_vars

\* ===========================================================================
\*                        BISECT RUNNER: PROPERTIES
\* ===========================================================================

IsPrefix(s, t) == Len(s) <= Len(t) /\ \A i \in 1..Len(s) : s[i] = t[i]

Indices(s) == [i \in 1..Len(s) |-> i]

\* The lines printed for the steps of the run: everything but the changeset
\* list printed before the loop and the message of the top-level handler.
IsStepLine(line) == line.kind \in {"message", "command"}
StepLines == LET texts == SelectSeq(printed, IsStepLine)
             IN  [i \in 1..Len(texts) |-> texts[i].text]

FollowUps(name) ==
    [i \in 1..Len(test_commands) |-> <<format_command(test_commands[i], name)>>]

\* The commands a non-dry run executes for changeset c when every command
\* succeeds: clone, checkout, the case command, the follow-up commands.
StepsOf(c) ==
    LET gen == case_command(config_bisect_test, run_id_of(c))
    IN  <<clone_cmd(repo_dir, temp_repo_dir_of(c)), checkout_cmd(c, run_id_of(c))>>
        \o (IF gen.ok THEN <<gen.cmd>> \o FollowUps(gen.name) ELSE <<>>)

AllSteps == Flatten([i \in 1..Len(changeset_ids) |-> StepsOf(changeset_ids[i])])

\* What a dry run prints for changeset c: the clone message, then the case
\* command and the follow-up commands when the case command can be generated.
DryLinesOf(c) ==
    LET gen == case_command(config_bisect_test, run_id_of(c))
    IN  <<clone_message(repo_dir, temp_repo_dir_of(c))>>
        \o (IF gen.ok THEN <<gen.cmd>> \o FollowUps(gen.name) ELSE <<>>)

AllDryLines == Flatten([i \in 1..Len(changeset_ids) |-> DryLinesOf(changeset_ids[i])])

\* C1 (as stated): a dry run invokes no subprocess, calls os.chdir not once,
\* and prints the exact command of every step a non-dry run would execute
\* (clone, checkout, case command, follow-ups), in order.
C1_DryRunPrintsEveryCommand ==
    dry_run =>
        /\ invoked = <<>>
        /\ chdirs = <<>>
        /\ IsPrefix(StepLines, AllSteps)
        /\ (pc = "done" /\ status = "0" => StepLines = AllSteps)

\* C1 (amended): a dry run invokes no subprocess and writes nothing to the log;
\* its only os.chdir calls are the os.chdir(cwd) at the head of each iteration,
\* so the working directory never leaves the base directory; per changeset it
\* prints the clone message (not the git clone command), nothing for the
\* checkout, and the case command and each follow-up command in order.
C1_DryRunExecutesNothing ==
    dry_run =>
        /\ invoked = <<>>
        /\ logfile = <<>>
        /\ workdir = cwd
        /\ Len(chdirs) = Len(checks)
        /\ \A i \in 1..Len(chdirs) : chdirs[i] = cwd
        /\ IsPrefix(StepLines, AllDryLines)
        /\ (pc = "done" /\ status = "0" => StepLines = AllDryLines)

\* C1 witness: a dry run over two changesets with follow-up commands finished
\* with status 0, having printed the commands and called os.chdir(cwd) twice.
C1_Witness ==
    /\ dry_run
    /\ pc = "done"
    /\ status = "0"
    /\ Len(changeset_ids) = 2
    /\ Len(test_commands) = 2
    /\ Len(chdirs) = 2
    /\ Len(StepLines) = 8

\* C2: when the clone directory of a changeset exists at the start of its
\* iteration, the run ends there with RuntimeError and exit status 1: no
\* clone, checkout or test command is issued (executed or printed) for that
\* changeset and no later changeset is processed; dry run or not.
C2_ExistingDirIsFatal ==
    \A i \in 1..Len(checks) :
        checks[i].existed =>
            /\ i = Len(checks)
            /\ pc = "done"
            /\ status = "1"
            /\ error = "RuntimeError: temporary git repo dir already exists"
            /\ k = checks[i].iter
            /\ \A j \in 1..Len(invoked) : invoked[j].iter < checks[i].iter
            /\ IsPrefix(StepLines,
                        Flatten([j \in 1..(checks[i].iter - 1) |->
                                    DryLinesOf(changeset_ids[j])]))

\* C2 witness: a non-dry run whose second changeset repeats the first; the
\* directory found by the second check is the one the first clone created.
C2_Witness ==
    /\ ~dry_run
    /\ Len(checks) = 2
    /\ changeset_ids[1] = changeset_ids[2]
    /\ ~checks[1].existed
    /\ checks[2].existed
    /\ invoked[1].step = "clone" /\ invoked[1].ok
    /\ status = "1"

\* C3 (first half, kept): a command that exits nonzero is the last command of
\* the run; the run ends with the error printed and exit status 1.
C3_FailedCommandEndsRun ==
    \A i \in 1..Len(invoked) :
        ~invoked[i].ok =>
            /\ i = Len(invoked)
            /\ pc = "done"
            /\ status = "1"
            /\ error = "CalledProcessError"
            /\ printed[Len(printed)] = Line("error", <<"CalledProcessError">>)

\* C3 (as stated): a failed command ends the run with status 1, and a run in
\* which every command succeeds (and at least one was executed) terminates
\* with status 0.
C3_SuccessMeansExitZero ==
    /\ C3_FailedCommandEndsRun
    /\ (pc = "done" /\ invoked # <<>> /\ (\A i \in 1..Len(invoked) : invoked[i].ok)
            => status = "0")

\* C3 (amended): a failed command ends the run with status 1 and no retry; a
\* run terminates with status 0 only if every command it executed succeeded
\* and every changeset was processed (all commands succeeding is not enough:
\* an existing clone directory or an internal error still exits with 1).
C3_ExitZeroOnlyIfAllSucceed ==
    /\ C3_FailedCommandEndsRun
    /\ (status = "0" =>
            /\ pc = "done"
            /\ error = ""
            /\ k = Len(changeset_ids) + 1
            /\ \A i \in 1..Len(invoked) : invoked[i].ok
            /\ (~dry_run => [i \in 1..Len(invoked) |-> invoked[i].argv] = AllSteps))

\* C3 witness: a follow-up command of the second changeset failed, after the
\* whole first changeset had succeeded.
C3_Witness ==
    /\ Len(invoked) > 4
    /\ ~invoked[Len(invoked)].ok
    /\ invoked[Len(invoked)].step = "followup"
    /\ invoked[Len(invoked)].iter = 2
    /\ status = "1"

\* The case command the configuration asks for: its values substituted into
\* the template of the configured type.
IntendedCaseCommand(c) ==
    IF bisect_type = "newcase"
    THEN <<"./create_newcase", "-case", run_id_of(c), "-res", "f10_f10",
           "-compset", "ICLM50BGC", "-mach", "yellowstone", "-compiler", "intel">>
    ELSE <<"./create_test", "-testname",
           "ERS_D_Ld3.f10_f10.ICLM50BGC.yellowstone_intel.clm-default",
           "-testid", run_id_of(c)>>

\* C8: in both modes command generation succeeds with the configured values
\* substituted into the template of the configured type, and the command is
\* the first one executed after the checkout, followed by the follow-ups.
C8_CaseCommandGenerated ==
    /\ error # "KeyError"
    /\ \A i \in 1..Len(invoked) :
          /\ (invoked[i].step = "checkout" /\ i < Len(invoked)) =>
                 /\ invoked[i + 1].step = "case"
                 /\ invoked[i + 1].argv =
                        IntendedCaseCommand(changeset_ids[invoked[i].iter])
          /\ (invoked[i].step = "followup") =>
                 invoked[i - 1].step \in {"case", "followup"}

\* C9: at every existence check of a non-dry run the working directory is the
\* base directory, whatever directory the previous iteration ended in, and the
\* path checked (and cloned into) is resolved against that base directory.
C9_BaseDirRestored ==
    ~dry_run =>
        \A i \in 1..Len(checks) :
            /\ checks[i].at = cwd
            /\ checks[i].path = temp_repo_dir_of(changeset_ids[checks[i].iter])

\* C9 witness: the second iteration's check, made after the first iteration
\* had changed into its case directory.
C9_Witness ==
    /\ ~dry_run
    /\ Len(checks) = 2
    /\ Len(checks[2].before) > Len(scripts_dir)
    /\ checks[2].at = cwd

IsBisectOutput(i) == invoked[i].step \in {"case", "followup"} /\ invoked[i].ok

\* C10 (as stated): in a non-dry run the output of every subprocess (clone,
\* checkout, case command, follow-ups) is appended in invocation order to the
\* one log file <branch_base>.log.
C10_AllOutputLogged ==
    ~dry_run =>
        /\ logfile = Indices(invoked)
        /\ (pc # "start" => opened = <<log_filename>>)

\* C10 (amended): one log file <branch_base>.log is opened per run; under
\* Python 2 it receives, in invocation order, the output of exactly the
\* successful case/test creation and follow-up commands, while the output of
\* git clone and git checkout is discarded; under Python 3 the first write
\* raises TypeError and the log stays empty.
C10_LogHoldsBisectOutput ==
    /\ (pc = "start" => opened = <<>>)
    /\ (pc # "start" => opened = <<log_filename>>)
    /\ (write_ok => logfile = SelectSeq(Indices(invoked), IsBisectOutput))
    /\ (~write_ok => logfile = <<>>)

\* C10 witness: a non-dry run that logged the output of a case command and of
\* a follow-up command, after a clone and a checkout whose output was dropped.
C10_Witness ==
    /\ ~dry_run
    /\ Len(invoked) >= 4
    /\ invoked[1].step = "clone" /\ invoked[2].step = "checkout"
    /\ logfile = <<3, 4>>

\* ===========================================================================
\*                            RESTART COMPARATOR
\* ===========================================================================

MaxKeys == 2
MaxVars == 2
NumTimes == 2
NumLat == 2
NumLon == 2
MaxDiffs == 2

\* ---- dictionaries: the sequence of their <<key, value>> items
Keys(d) == {d[i][1] : i \in 1..Len(d)}
IndexOf(d, key) == CHOOSE i \in 1..Len(d) : d[i][1] = key
ItemKeys(d) == [i \in 1..Len(d) |-> d[i][1]]

\* An entry of the mapping diff_dict returns: 'a_not_b' and 'b_not_a' carry a
\* list of keys, 'different' carries <<key, a[key], b[key]>> triples.
DiffEntry(key, list, pairs) == [key |-> key, list |-> list, pairs |-> pairs]

\* diff_dict without its second loop: 'b_not_a' is never filled.
diff_dict_one_sided(a, b, cmp_values) ==
    LET InA(item) == item[1] \notin Keys(b)
        a_not_b == SelectSeq(a, InA)
    IN  IF a_not_b # <<>>
        THEN <<DiffEntry("a_not_b", ItemKeys(a_not_b), <<>>)>>
        ELSE <<>>

\* diff_dict, lines 107-134
diff_dict(a, b, cmp_values) ==
    LET OnlyA(item) == item[1] \notin Keys(b)
        OnlyB(item) == item[1] \notin Keys(a)
        Differs(item) == /\ item[1] \in Keys(b)
                         /\ cmp_values
                         /\ item[2] # b[IndexOf(b, item[1])][2]
        a_not_b == ItemKeys(SelectSeq(a, OnlyA))
        b_not_a == ItemKeys(SelectSeq(b, OnlyB))
        changed == SelectSeq(a, Differs)
        different == [i \in 1..Len(changed) |->
                         <<changed[i][1], changed[i][2],
                           b[IndexOf(b, changed[i][1])][2]>>]
    IN  (IF a_not_b # <<>> THEN <<DiffEntry("a_not_b", a_not_b, <<>>)>> ELSE <<>>)
        \o (IF b_not_a # <<>> THEN <<DiffEntry("b_not_a", b_not_a, <<>>)>> ELSE <<>>)
        \o (IF different # <<>> THEN <<DiffEntry("different", <<>>, different)>>
            ELSE <<>>)

\* ---- netcdf files: the sequence of their variables, in enumeration order
Variable(name, dimensions, data) ==
    [name |-> name, dimensions |-> dimensions, data |-> data]

Names(file) == {file[i].name : i \in 1..Len(file)}

\* file.variables[name]; the caller has checked that name is a key
lookup(file, name) == file[CHOOSE i \in 1..Len(file) : file[i].name = name]

\* file.variables as a dictionary (the values are never compared)
variables_dict(file) == [i \in 1..Len(file) |-> <<file[i].name, 0>>]

\* file.dimensions as a dictionary from dimension name to size
dimensions_dict(file) ==
    << <<"time", NumTimes>>, <<"lat", NumLat>>, <<"lon", NumLon>> >>

\* get_time_vars that inserts at the front instead of appending
RECURSIVE get_time_vars_reversed(_)
get_time_vars_reversed(file) ==
    IF file = <<>> THEN <<>>
    ELSE get_time_vars_reversed(Tail(file))
         \o (IF "time" \in Range(Head(file).dimensions)
             THEN <<Head(file).name>> ELSE <<>>)

\* get_time_vars, lines 156-163
RECURSIVE get_time_vars(_)
get_time_vars(file) ==
    IF file = <<>> THEN <<>>
    ELSE (IF "time" \in Range(Head(file).dimensions)
          THEN <<Head(file).name>> ELSE <<>>)
         \o get_time_vars(Tail(file))

\* main, line 227, passing only the variables the restart file also has
compare_arguments_common(tvars, restart) ==
    LET InRestart(name) == name \in Names(restart)
    IN  SelectSeq(tvars, InRestart)

\* main, line 227: compare_variables(time_vars, base_file, restart_file)
compare_arguments(tvars, restart) == tvars

\* np.array_equal on arrays of the same shape
array_equal(x, y) == x = y

\* compare_variables, lines 185-187: np.transpose(np.where(diff != 0)) of a
\* 2-d slice: the zero-based [i, j] of the nonzero differences, row by row.
diff_points(base_data, rest_data) ==
    LET rows == Len(base_data)
        cols == Len(base_data[1])
        cell(n) == <<((n - 1) \div cols) + 1, ((n - 1) % cols) + 1>>
        NonZero(n) == base_data[cell(n)[1]][cell(n)[2]]
                      - rest_data[cell(n)[1]][cell(n)[2]] # 0
        hits == SelectSeq([n \in 1..(rows * cols) |-> n], NonZero)
    IN  [h \in 1..Len(hits) |-> <<cell(hits[h])[1] - 1, cell(hits[h])[2] - 1>>]

\* line 190 with the two coordinate arrays indexed the wrong way round
point_line_swapped(point, lat, lon) ==
    [point |-> point, lat |-> lat[point[2] + 1], lon |-> lon[point[1] + 1]]

\* compare_variables, line 190: point == (lat[point[0]], lon[point[1]])
point_line(point, lat, lon) ==
    [point |-> point, lat |-> lat[point[1] + 1], lon |-> lon[point[2] + 1]]

Entry(kind, var, index, time, points, plotted, d) ==
    [kind |-> kind, var |-> var, index |-> index, time |-> time,
     points |-> points, plotted |-> plotted, diff |-> d]

\* check_stuff, lines 137-143: the diff is printed when it is not empty
check_stuff(name, base, rest, cmp_values) ==
    LET d == diff_dict(base, rest, cmp_values)
    IN  IF d # <<>> THEN <<Entry("sanity", name, 0, 0, <<>>, FALSE, d)>> ELSE <<>>

\* sanity_check, lines 146-153
sanity_check(base, rest) ==
    check_stuff("Dimensions", dimensions_dict(base), dimensions_dict(rest), TRUE)
    \o check_stuff("Variables", variables_dict(base), variables_dict(rest), FALSE)

\* ---- input files
Cells == (1..NumTimes) \X (1..NumLat) \X (1..NumLon)

RECURSIVE SubsetsUpTo(_, _)
SubsetsUpTo(S, n) ==
    IF n = 0 THEN {{}}
    ELSE LET smaller == SubsetsUpTo(S, n - 1)
         IN  smaller \cup {p \cup {x} : p \in smaller, x \in S}

Field(cells, delta) ==
    [t \in 1..NumTimes |-> [i \in 1..NumLat |-> [j \in 1..NumLon |->
        IF <<t, i, j>> \in cells THEN delta ELSE 0]]]

Series(steps, delta) == [t \in 1..NumTimes |-> IF t \in steps THEN delta ELSE 0]

CoordinateVariables ==
    << Variable("time", <<"time">>, [t \in 1..NumTimes |-> 30 * t]),
       Variable("lat", <<"lat">>, [i \in 1..NumLat |-> 10 * i]),
       Variable("lon", <<"lon">>, [j \in 1..NumLon |-> 100 * j]) >>

DataVariables(cells, steps, delta) ==
    << Variable("TSOI", <<"time", "lat", "lon">>, Field(cells, delta)),
       Variable("mcdate", <<"time">>, Series(steps, delta)),
       Variable("area", <<"lat", "lon">>, Field({}, 0)[1]) >>

HistoryFile(coordinates_first, cells, steps, delta) ==
    IF coordinates_first
    THEN CoordinateVariables \o DataVariables(cells, steps, delta)
    ELSE DataVariables(cells, steps, delta) \o CoordinateVariables

\* The baseline file holds all variables; the restart file has the same
\* shapes, may lack some of the data variables, and differs from the baseline
\* in at most MaxDiffs cells of TSOI and possibly in the last step of mcdate.
InitCompare ==
    /\ \E coordinates_first \in BOOLEAN,
          missing \in SUBSET {"TSOI", "mcdate", "area"},
          cells \in SubsetsUpTo(Cells, MaxDiffs),
          steps \in {{}, {NumTimes}} :
          LET Present(v) == v.name \notin missing
          IN  /\ "TSOI" \in missing => cells = {}
              /\ "mcdate" \in missing => steps = {}
              /\ base_file = HistoryFile(coordinates_first, {}, {}, 0)
              /\ restart_file =
                     SelectSeq(HistoryFile(coordinates_first, cells, steps, 1), Present)
    /\ cpc = "start"
    /\ time_vars = <<>>
    /\ vi = 1
    /\ ti = 1
    /\ reads = {}
    /\ report = <<>>
    /\ cstatus = "running"

Read(file, name, role, found) ==
    [file |-> file, name |-> name, role |-> role, found |-> found]

\* main, lines 222-225: open both files and run the sanity check.
main_sanity_check ==
    /\ cpc = "start"
    /\ report' = report \o sanity_check(base_file, restart_file)
    /\ cpc' = "select"
    /\ UNCHANGED <<base_file, restart_file, time_vars, vi, ti, reads, cstatus>>
    /\ UNCHANGED <<bisect_vars, diff_vars>>

\* main, line 226: time_vars = get_time_vars(base_file)
main_get_time_vars ==
    /\ cpc = "select"
    /\ time_vars' = get_time_vars(base_file)
    /\ cpc' = "compare"
    /\ UNCHANGED <<base_file, restart_file, vi, ti, reads, report, cstatus>>
    /\ UNCHANGED <<bisect_vars, diff_vars>>

\* main, line 227, and compare_variables, lines 169-171: the coordinate
\* variables are looked up in the baseline file (KeyError when one is absent).
compare_variables_begin ==
    /\ cpc = "compare"
    /\ LET wanted == <<"time", "lat", "lon">>
           absent == {n \in Range(wanted) : n \notin Names(base_file)}
       IN  /\ reads' = reads \cup
                  {Read("base", n, "coordinate", n \in Names(base_file)) :
                      n \in Range(wanted)}
           /\ IF absent = {}
              THEN /\ time_vars' = compare_arguments(time_vars, restart_file)
                   /\ cpc' = "var"
                   /\ vi' = 1
                   /\ UNCHANGED cstatus
              ELSE /\ cpc' = "done"
                   /\ cstatus' = "1"
                   /\ UNCHANGED <<time_vars, vi>>
    /\ UNCHANGED <<base_file, restart_file, ti, report>>
    /\ UNCHANGED <<bisect_vars, diff_vars>>

\* compare_variables, lines 172-177: look the variable up in both files
\* (KeyError, hence exit status 1, when the restart file lacks it) and compare
\* the whole arrays.
compare_variables_var ==
    /\ cpc = "var"
    /\ vi <= Len(time_vars)
    /\ LET var == time_vars[vi]
           in_base == var \in Names(base_file)
           in_rest == var \in Names(restart_file)
       IN  /\ reads' = reads \cup
                  ({Read("base", var, "compare", in_base)} \cup
                   (IF in_base THEN {Read("restart", var, "compare", in_rest)}
                    ELSE {}))
           /\ IF ~(in_base /\ in_rest)
              THEN /\ cpc' = "done"
                   /\ cstatus' = "1"
                   /\ UNCHANGED <<vi, ti, report>>
              ELSE IF array_equal(lookup(base_file, var).data,
                                  lookup(restart_file, var).data)
              THEN /\ vi' = vi + 1
                   /\ UNCHANGED <<cpc, cstatus, ti, report>>
              ELSE /\ report' = Append(report,
                          Entry("differs", var, 0, 0, <<>>, FALSE, <<>>))
                   /\ cpc' = "time"
                   /\ ti' = 1
                   /\ UNCHANGED <<vi, cstatus>>
    /\ UNCHANGED <<base_file, restart_file, time_vars>>
    /\ UNCHANGED <<bisect_vars, diff_vars>>

\* compare_variables, lines 178-191: one pass of the loop over the time steps.
compare_variables_time ==
    /\ cpc = "time"
    /\ ti <= Len(lookup(base_file, "time").data)
    /\ LET var == time_vars[vi]
           times == lookup(base_file, "time").data
           lat == lookup(base_file, "lat").data
           lon == lookup(base_file, "lon").data
           base_data == lookup(base_file, var).data[ti]
           rest_data == lookup(restart_file, var).data[ti]
           three_d == Len(lookup(base_file, var).dimensions) = 3
           points == diff_points(base_data, rest_data)
       IN  IF array_equal(base_data, rest_data)
           THEN UNCHANGED report
           ELSE report' = Append(report,
                    Entry("time", var, ti - 1, times[ti],
                          IF three_d
                          THEN [n \in 1..Len(points) |-> point_line(points[n], lat, lon)]
                          ELSE <<>>,
                          three_d, <<>>))
    /\ ti' = ti + 1
    /\ UNCHANGED <<base_file, restart_file, cpc, time_vars, vi, reads, cstatus>>
    /\ UNCHANGED <<bisect_vars, diff_vars>>

\* compare_variables: the time loop of one variable is over, take the next.
compare_variables_next ==
    /\ cpc = "time"
    /\ ti > Len(lookup(base_file, "time").data)
    /\ cpc' = "var"
    /\ vi' = vi + 1
    /\ UNCHANGED <<base_file, restart_file, time_vars, ti, reads, report, cstatus>>
    /\ UNCHANGED <<bisect_vars, diff_vars>>

\* main, line 228, and __main__, line 235: return 0; sys.exit(status).
compare_return ==
    /\ cpc = "var"
    /\ vi > Len(time_vars)
    /\ cpc' = "done"
    /\ cstatus' = "0"
    /\ UNCHANGED <<base_file, restart_file, time_vars, vi, ti, reads, report>>
    /\ UNCHANGED <<bisect_vars, diff_vars>>

NextCompare ==
    \/ main_sanity_check
    \/ main_get_time_vars
    \/ compare_variables_begin
    \/ compare_variables_var
    \/ compare_variables_time
    \/ compare_variables_next
    \/ compare_return

InitCompareRun == InitCompare /\ IdleBisect /\ IdleDiff

SpecCompare == InitCompareRun /\ [][NextCompare]_vars

\* ---- get_time_vars on arbitrary variable lists
NameUniverse == {"time", "TSOI", "area"}
DimensionsUniverse == { <<"time">>, <<"time", "lat", "lon">>, <<"lat", "lon">>, <<"lat">> }

InitTimeVars ==
    /\ base_file \in {f \in SeqsUpTo({Variable(n, d, <<>>) : n \in NameUniverse,
                                                           d \in DimensionsUniverse},
                                    MaxVars) :
                         \A i, j \in 1..Len(f) : i # j => f[i].name # f[j].name}
    /\ restart_file = <<>>
    /\ cpc = "select"
    /\ time_vars = <<>>
    /\ vi = 1
    /\ ti = 1
    /\ reads = {}
    /\ report = <<>>
    /\ cstatus = "running"

InitTimeVarsRun == InitTimeVars /\ IdleBisect /\ IdleDiff

NextTimeVars == main_get_time_vars

SpecTimeVars == InitTimeVarsRun /\ [][NextTimeVars]_vars

\* ---- diff_dict on arbitrary dictionaries
KeyUniverse == {"time", "lat", "lon"}
ValueUniverse == {1, 2}

Dicts == {d \in SeqsUpTo(KeyUniverse \X ValueUniverse, MaxKeys) :
             \A i, j \in 1..Len(d) : i # j => d[i][1] # d[j][1]}

InitDiff ==
    /\ dict_a \in Dicts
    /\ dict_b \in Dicts
    /\ compare_values \in BOOLEAN
    /\ diff = <<>>
    /\ fpc = "call"

\* check_stuff, line 140: diff = diff_dict(base, rest, compare_values)
call_diff_dict ==
    /\ fpc = "call"
    /\ diff' = diff_dict(dict_a, dict_b, compare_values)
    /\ fpc' = "done"
    /\ UNCHANGED <<dict_a, dict_b, compare_values>>
    /\ UNCHANGED <<bisect_vars, compare_vars>>

InitDiffRun == InitDiff /\ IdleBisect /\ IdleCompare

NextDiff == call_diff_dict

SpecDiff == InitDiffRun /\ [][NextDiff]_vars

\* ===========================================================================
\*                      RESTART COMPARATOR: PROPERTIES
\* ===========================================================================

DiffEntries(key) == {i \in 1..Len(diff) : diff[i].key = key}

\* The keys listed under `key` are exactly the set `expected`, each once; the
\* key is left out of the result when `expected` is empty.
ListsExactly(key, expected) ==
    IF expected = {}
    THEN DiffEntries(key) = {}
    ELSE /\ Cardinality(DiffEntries(key)) = 1
         /\ \A i \in DiffEntries(key) :
               /\ Range(diff[i].list) = expected
               /\ Len(diff[i].list) = Cardinality(expected)

\* C4: diff_dict(A, B, compare_values) lists under 'a_not_b' exactly the keys
\* of A that are not keys of B and under 'b_not_a' exactly the keys of B that
\* are not keys of A, omits a key whose list is empty, and returns the empty
\* mapping for a mapping diffed against itself.
C4_DiffDictKeys ==
    fpc = "done" =>
        /\ ListsExactly("a_not_b", Keys(dict_a) \ Keys(dict_b))
        /\ ListsExactly("b_not_a", Keys(dict_b) \ Keys(dict_a))
        /\ (Range(dict_a) = Range(dict_b) => diff = <<>>)

\* C4 witness: both mappings have a key the other lacks, and share a key
\* whose values differ, with value comparison enabled.
C4_Witness ==
    /\ fpc = "done"
    /\ compare_values
    /\ Keys(dict_a) \ Keys(dict_b) # {}
    /\ Keys(dict_b) \ Keys(dict_a) # {}
    /\ Len(diff) = 3

IsCompareRead(r) == r.role = "compare"

HasTimeDimension(name) ==
    /\ name \in Names(base_file)
    /\ "time" \in Range(lookup(base_file, name).dimensions)

\* C5 (as stated): the comparison only reads variables that are present in
\* both files and labeled with the time dimension; a time-indexed variable of
\* the baseline that the restart file lacks is excluded, not looked up.
C5_OnlyCommonTimeVarsRead ==
    \A r \in reads :
        IsCompareRead(r) =>
            /\ r.name \in Names(base_file) \cap Names(restart_file)
            /\ HasTimeDimension(r.name)

\* C5 (amended): besides the coordinate variables time, lat and lon of the
\* baseline file, the comparison reads exactly the variables the baseline
\* file labels with the time dimension, from both files and without checking
\* the restart file for them: a time-indexed variable of the baseline that the
\* restart file lacks is looked up there, the lookup fails (KeyError) and the
\* run ends with exit status 1; the run ends with status 0 only if every
\* time-indexed variable of the baseline was read from both files.
C5_BaselineTimeVarsRead ==
    /\ \A r \in reads :
          /\ IsCompareRead(r) => HasTimeDimension(r.name)
          /\ ~IsCompareRead(r) => r.file = "base" /\ r.name \in {"time", "lat", "lon"}
          /\ r.found = (r.name \in Names(IF r.file = "base" THEN base_file
                                         ELSE restart_file))
          /\ ~r.found => r.file = "restart" /\ cpc = "done" /\ cstatus = "1"
    /\ (cstatus = "0" =>
           \A n \in Range(get_time_vars(base_file)) :
               /\ n \in Names(restart_file)
               /\ Read("base", n, "compare", TRUE) \in reads
               /\ Read("restart", n, "compare", TRUE) \in reads)

\* C5 witness: the time-indexed variable TSOI, absent from the restart file,
\* was looked up there and the run ended with status 1.
C5_Witness ==
    /\ "TSOI" \notin Names(restart_file)
    /\ Read("restart", "TSOI", "compare", FALSE) \in reads
    /\ cstatus = "1"

\* C6: get_time_vars returns exactly the names of the baseline variables
\* whose dimension list contains 'time', each once, in the file's enumeration
\* order, and the empty list when there is none.
C6_TimeVarsExact ==
    cpc = "compare" =>
        LET time_names == {base_file[i].name : i \in
                              {n \in 1..Len(base_file) :
                                  "time" \in Range(base_file[n].dimensions)}}
            position(name) == CHOOSE i \in 1..Len(base_file) : base_file[i].name = name
        IN  /\ Range(time_vars) = time_names
            /\ Len(time_vars) = Cardinality(time_names)
            /\ \A i, j \in 1..Len(time_vars) :
                  i < j => position(time_vars[i]) < position(time_vars[j])
            /\ (time_names = {} => time_vars = <<>>)

\* C6 witness: two variables with a time dimension were selected.
C6_Witness ==
    /\ cpc = "compare"
    /\ Len(base_file) = 2
    /\ Len(time_vars) = 2

\* The cells <<t, i, j>> (one-based) where TSOI differs between the files.
DifferingCells ==
    {c \in Cells : lookup(base_file, "TSOI").data[c[1]][c[2]][c[3]]
                   # lookup(restart_file, "TSOI").data[c[1]][c[2]][c[3]]}

\* compare_variables is through with variable `name`.
Compared(name) ==
    /\ cpc \in {"var", "done"}
    /\ \E i \in 1..Len(time_vars) : time_vars[i] = name /\ i < vi

IsTimeEntryOfTSOI(e) == e.kind = "time" /\ e.var = "TSOI"

\* C7: when the (time, lat, lon) arrays of a variable differ at exactly one
\* time index t and one grid cell (i, j), compare_variables reports exactly
\* one differing time step, index t with time value times[t], and exactly one
\* differing coordinate, [i, j], mapped to (lat[i], lon[j]).
C7_SingleCellReported ==
    ("TSOI" \in Names(restart_file) /\ Compared("TSOI")
        /\ Cardinality(DifferingCells) = 1) =>
        LET c == CHOOSE c \in DifferingCells : TRUE
        IN  SelectSeq(report, IsTimeEntryOfTSOI) =
                << Entry("time", "TSOI", c[1] - 1,
                         lookup(base_file, "time").data[c[1]],
                         << [point |-> <<c[2] - 1, c[3] - 1>>,
                             lat |-> lookup(base_file, "lat").data[c[2]],
                             lon |-> lookup(base_file, "lon").data[c[3]]] >>,
                         TRUE, <<>>) >>

\* C7 witness: the arrays differ only at zero-based [1, 0, 1] and the
\* comparison of the variable is complete.
C7_Witness ==
    /\ "TSOI" \in Names(restart_file)
    /\ Compared("TSOI")
    /\ DifferingCells = {<<2, 1, 2>>}

====
